---- MODULE Spec2Model ----
(***************************************************************************)
(* Model of Sample-Project/project.py: a straight-line script that issues  *)
(* a GET, a GET with query parameters whose body it decodes as JSON, and a *)
(* POST through a requests.Session used as a context manager.              *)
(*                                                                         *)
(* The HTTP client itself (requests) is a third-party package and no part  *)
(* of this repository.  Each call into it is one step of the script whose  *)
(* outcome the environment chooses: a Response object or a raised          *)
(* exception.  What a Response's attributes are (status_code, ok, whether  *)
(* json() succeeds) is chosen freely too: how the library derives ok from  *)
(* status_code is not in the source, so the model does not constrain it,   *)
(* and what is checked here holds whatever that relation is.               *)
(***************************************************************************)
EXTENDS Naturals, Sequences, FiniteSets

VARIABLES
    pc,        \* the statement the script executes next
    req,       \* line 4: the first GET's Response, or None
    resp,      \* line 8: the second GET's Response, or None
    post_resp, \* line 16: the POST's Response, or None
    session,   \* line 15: "none" (not created), "open", "closed"
    closeCalls,\* how often the session's release (__exit__ -> close) ran
    decoded,   \* line 12: "no" (json() not called), "ok", "error"
    exc,       \* the exception propagating out of the script, or "none"
    wire,      \* history: the library calls that issue a request, in order
    stdout     \* history: what the script printed, in order

vars == <<pc, req, resp, post_resp, session, closeCalls, decoded, exc, wire, stdout>>

None == [none |-> TRUE]

\* Status codes the servers may answer with, one per class (2xx, 3xx, 4xx,
\* 5xx); the script only prints them (lines 5, 23).
StatusCodes == {200, 302, 404, 500}

\* A Response as far as the script reads it: status_code (lines 5, 23),
\* ok (line 20), and whether json() succeeds on its body (line 12).
Responses == [status_code : StatusCodes, ok : BOOLEAN, json : BOOLEAN]

\* What a request call may raise instead of returning a Response.
TransportErrors == {"ConnectionError", "Timeout", "ProtocolError"}

\* The program counter's values, in source order.
Lines == {"get1", "print1", "get2", "json2", "open", "post", "branch",
          "exit", "done", "failed"}

Init ==
    /\ pc = "get1"
    /\ req = None
    /\ resp = None
    /\ post_resp = None
    /\ session = "none"
    /\ closeCalls = 0
    /\ decoded = "no"
    /\ exc = "none"
    /\ wire = << >>
    /\ stdout = << >>

\* line 4: req = requests.get("https://www.google.com") returns a Response
Get1Returns ==
    /\ pc = "get1"
    /\ \E r \in Responses : req' = r
    /\ wire' = Append(wire, "GET1")
    /\ pc' = "print1"
    /\ UNCHANGED <<resp, post_resp, session, closeCalls, decoded, exc, stdout>>

\* line 4: the call raises; nothing catches it, the script ends
Get1Raises ==
    /\ pc = "get1"
    /\ \E e \in TransportErrors : exc' = e
    /\ wire' = Append(wire, "GET1")
    /\ pc' = "failed"
    /\ UNCHANGED <<req, resp, post_resp, session, closeCalls, decoded, stdout>>

\* line 5: print(req.status_code)
Print1 ==
    /\ pc = "print1"
    /\ stdout' = Append(stdout, <<"status", req.status_code>>)
    /\ pc' = "get2"
    /\ UNCHANGED <<req, resp, post_resp, session, closeCalls, decoded, exc, wire>>

\* lines 8-11: resp = requests.get(".../data", params={...}) returns a Response
Get2Returns ==
    /\ pc = "get2"
    /\ \E r \in Responses : resp' = r
    /\ wire' = Append(wire, "GET2")
    /\ pc' = "json2"
    /\ UNCHANGED <<req, post_resp, session, closeCalls, decoded, exc, stdout>>

\* lines 8-11: the call raises
Get2Raises ==
    /\ pc = "get2"
    /\ \E e \in TransportErrors : exc' = e
    /\ wire' = Append(wire, "GET2")
    /\ pc' = "failed"
    /\ UNCHANGED <<req, resp, post_resp, session, closeCalls, decoded, stdout>>

\* A variant of line 12 that decodes only an ok response:
\*     if resp.ok: print(resp.json())
Json2OkFirst ==
    /\ pc = "json2"
    /\ IF ~resp.ok
         THEN /\ pc' = "open"
              /\ UNCHANGED <<decoded, exc, stdout>>
         ELSE IF resp.json
                THEN /\ decoded' = "ok"
                     /\ stdout' = Append(stdout, <<"json">>)
                     /\ pc' = "open"
                     /\ UNCHANGED exc
                ELSE /\ decoded' = "error"
                     /\ exc' = "ParseError"
                     /\ pc' = "failed"
                     /\ UNCHANGED stdout
    /\ UNCHANGED <<req, resp, post_resp, session, closeCalls, wire>>

\* line 12: print(resp.json()): the body is decoded whatever the status;
\* a body that is no JSON raises out of json(), before print runs
Json2 ==
    /\ pc = "json2"
    /\ IF resp.json
         THEN /\ decoded' = "ok"
              /\ stdout' = Append(stdout, <<"json">>)
              /\ pc' = "open"
              /\ UNCHANGED exc
         ELSE /\ decoded' = "error"
              /\ exc' = "ParseError"
              /\ pc' = "failed"
              /\ UNCHANGED stdout
    /\ UNCHANGED <<req, resp, post_resp, session, closeCalls, wire>>

\* line 15: with requests.Session() as session: the session is created and
\* the scope entered
OpenSession ==
    /\ pc = "open"
    /\ session' = "open"
    /\ pc' = "post"
    /\ UNCHANGED <<req, resp, post_resp, closeCalls, decoded, exc, wire, stdout>>

\* lines 16-19: post_resp = session.post(".../submit", json={...}) returns
PostReturns ==
    /\ pc = "post"
    /\ \E r \in Responses : post_resp' = r
    /\ wire' = Append(wire, "POST")
    /\ pc' = "branch"
    /\ UNCHANGED <<req, resp, session, closeCalls, decoded, exc, stdout>>

\* A variant of lines 15-19 without the with statement
\*     session = requests.Session(); session.post(...); ...; session.close()
\* where a raising post leaves the script at once
PostRaisesNoExit ==
    /\ pc = "post"
    /\ \E e \in TransportErrors : exc' = e
    /\ wire' = Append(wire, "POST")
    /\ pc' = "failed"
    /\ UNCHANGED <<req, resp, post_resp, session, closeCalls, decoded, stdout>>

\* lines 16-19: the call raises inside the with body: control leaves the
\* body for the with statement's exit, the exception pending
PostRaises ==
    /\ pc = "post"
    /\ \E e \in TransportErrors : exc' = e
    /\ wire' = Append(wire, "POST")
    /\ pc' = "exit"
    /\ UNCHANGED <<req, resp, post_resp, session, closeCalls, decoded, stdout>>

\* lines 20-21: if post_resp.ok: print("Submitted!", post_resp.text)
BranchOk ==
    /\ pc = "branch"
    /\ post_resp.ok
    /\ stdout' = Append(stdout, <<"Submitted!">>)
    /\ pc' = "exit"
    /\ UNCHANGED <<req, resp, post_resp, session, closeCalls, decoded, exc, wire>>

\* lines 22-23: else: print("Error:", post_resp.status_code)
BranchError ==
    /\ pc = "branch"
    /\ ~post_resp.ok
    /\ stdout' = Append(stdout, <<"Error:", post_resp.status_code>>)
    /\ pc' = "exit"
    /\ UNCHANGED <<req, resp, post_resp, session, closeCalls, decoded, exc, wire>>

\* line 15, leaving the with block: the context manager's exit releases the
\* session, on the normal path and with an exception pending alike; a pending
\* exception then propagates
WithExit ==
    /\ pc = "exit"
    /\ session' = "closed"
    /\ closeCalls' = closeCalls + 1
    /\ pc' = IF exc = "none" THEN "done" ELSE "failed"
    /\ UNCHANGED <<req, resp, post_resp, decoded, exc, wire, stdout>>

Next ==
    \/ Get1Returns
    \/ Get1Raises
    \/ Print1
    \/ Get2Returns
    \/ Get2Raises
    \/ Json2
    \/ OpenSession
    \/ PostReturns
    \/ PostRaises
    \/ BranchOk
    \/ BranchError
    \/ WithExit

Spec == Init /\ [][Next]_vars

TypeOK ==
    /\ pc \in Lines
    /\ req \in Responses \cup {None}
    /\ resp \in Responses \cup {None}
    /\ post_resp \in Responses \cup {None}
    /\ session \in {"none", "open", "closed"}
    /\ closeCalls \in Nat
    /\ decoded \in {"no", "ok", "error"}
    /\ exc \in TransportErrors \cup {"ParseError", "none"}

\* The script has ended, normally or with an exception propagating out.
Ended == pc \in {"done", "failed"}

\* What the script issues, in source order (lines 4, 8, 16).
Program == <<"GET1", "GET2", "POST">>

IsPrefix(s, t) == Len(s) <= Len(t) /\ \A i \in 1..Len(s) : s[i] = t[i]

----------------------------------------------------------------------------
\* C1: every session that is opened is released exactly once by the time its
\* with block is left, on the normal path and when the POST raises: the
\* release never runs twice, a session is open only inside the block, and no
\* execution ends with the session still open.
C1_SessionReleasedOnEveryExit ==
    /\ closeCalls <= 1
    /\ session = "none" => closeCalls = 0
    /\ session = "open" => closeCalls = 0 /\ pc \in {"post", "branch", "exit"}
    /\ session = "closed" => closeCalls = 1 /\ Ended
    /\ Ended => session # "open"
    /\ Ended /\ "POST" \in {wire[i] : i \in 1..Len(wire)} => session = "closed"

\* The POST raised inside the with block and the script has ended with that
\* exception, the session released once.
C1_Witness ==
    /\ pc = "failed"
    /\ exc \in TransportErrors
    /\ wire = Program
    /\ post_resp = None
    /\ session = "closed"
    /\ closeCalls = 1

\* C10: the script's steps are strictly ordered and fail-fast.  Requests go
\* out in source order, the second GET only after the first returned, the
\* session and the POST only after the second returned and its body decoded
\* as JSON; json() is called whatever the second response's status or ok
\* flag, and a body that is no JSON raises ParseError; once anything raises
\* no later request goes out, no session is opened afterwards, and the script
\* ends with that exception; a POST response that is not ok is printed as
\* "Error:" and the script ends normally.
C10_OrderedFailFast ==
    /\ IsPrefix(wire, Program)
    /\ Len(wire) >= 2 => req # None
    /\ Len(wire) = 3 \/ session # "none" => resp # None /\ decoded = "ok"
    /\ session # "none" => req # None
    /\ resp # None /\ pc # "json2" => decoded # "no"
    /\ resp # None /\ decoded # "no" => (decoded = "ok" <=> resp.json)
    /\ decoded = "error" <=> exc = "ParseError"
    /\ exc = "ParseError" => pc = "failed" /\ Len(wire) = 2 /\ session = "none"
    /\ exc \in TransportErrors =>
          /\ pc \in {"exit", "failed"}
          /\ Len(wire) = 1 => req = None /\ session = "none"
          /\ Len(wire) = 2 => resp = None /\ session = "none"
          /\ Len(wire) = 3 => post_resp = None
    /\ pc = "failed" <=> (exc # "none" /\ pc # "exit")
    /\ Ended => ~ENABLED Next
    /\ post_resp # None => exc = "none"
    /\ pc = "done" =>
          /\ wire = Program
          /\ Len(stdout) = 3
          /\ stdout[3] = IF post_resp.ok
                           THEN <<"Submitted!">>
                           ELSE <<"Error:", post_resp.status_code>>

\* The second response carried an error status and a body that is no JSON:
\* json() was called all the same, raised ParseError, and the script ended
\* before any session was opened.
C10_Witness ==
    /\ pc = "failed"
    /\ exc = "ParseError"
    /\ resp # None
    /\ resp.status_code = 404
    /\ ~resp.ok
    /\ decoded = "error"
    /\ session = "none"
    /\ wire = <<"GET1", "GET2">>

====
